---- MODULE Spec2Model ----
(***************************************************************************)
(* Sale Tracker API (panduhzz/saleTracker, backend/app).                   *)
(*                                                                         *)
(* The model covers the identity extractor (auth/swa_auth.py), the request *)
(* models (models/sales.py), the Cosmos DB gateway (services/              *)
(* cosmos_service.py) and the route handlers (api/sales.py,                *)
(* api/dashboard.py, main.py).                                             *)
(*                                                                         *)
(* Modelling decisions:                                                    *)
(*  - The Cosmos container is a set of documents; an item is addressed by  *)
(*    (partition key, id), the partition key of a document is its userId.  *)
(*  - A JSON value that may be null is Null (<<>>) or Some(v) (<<v>>).     *)
(*  - A request body is a function from the field names it SETS to their   *)
(*    values, so model_dump(exclude_unset=True) is the body itself.        *)
(*  - Amounts (floats in the code) are integers; an average is the         *)
(*    fraction [num, den].                                                 *)
(*  - Timestamps are readings of the wall clock `clock`; isoformat() of a  *)
(*    UTC datetime is injective and order preserving, so a timestamp is    *)
(*    kept as the reading itself.                                          *)
(*  - uuid4() is modelled as never repeating (122 random bits).            *)
(*  - Every call on the container is one atomic step of the store.  The    *)
(*    handlers hold no lock across calls and the store is shared by every  *)
(*    worker of the service, so steps of different requests interleave.    *)
(*  - The environment the service was started in is state that no request  *)
(*    changes: `client` (CosmosService.client, None when the connection    *)
(*    string is a placeholder or unusable) and `workers` (how many         *)
(*    requests may be between two of their store calls at once).  `fault`  *)
(*    is the error the store answers a call with ("": none).               *)
(*  - Spec is the service with a store connection, a store that answers    *)
(*    every call, and one request at a time between two store calls;       *)
(*    SpecDegraded starts without a connection, SpecRace serves two        *)
(*    interleaved updates, SpecFaults has a store whose calls can fail.    *)
(***************************************************************************)
EXTENDS Integers, Sequences, FiniteSets, TLC

(* ------------------------------ bounds -------------------------------- *)

\* Number of uuid4() draws (sales ever created).
MaxSales == 2

\* Last reading of the wall clock.
MaxClock == 1

\* Requests that may be between two store calls at the same time.
MaxInflight == 1

\* The same, where updates race (SpecRace).
RaceWorkers == 2

(* -------------------------- program constants ------------------------- *)

HardCap == 20
CombinedRecentLimit == 5
MinProductNameLen == 1
MaxProductNameLen == 200
MaxCustomerNameLen == 100

Platform == {"ebay", "goat", "stockx", "manual"}

(* ------------------------------ JSON values --------------------------- *)

Null == <<>>
Some(v) == <<v>>
IsNull(x) == x = <<>>
Val(x) == x[1]

\* The tenants of the model.
Users == {"A", "B"}

\* saleDate strings, as <<year-month, rest>>, in ascending string order.
DateMar == <<"2024-03", "-01T00:00:00Z">>
DateApr == <<"2024-04", "-15T10:30:00Z">>
SaleDates == <<DateMar, DateApr>>

\* Position of a saleDate value in the store's ORDER BY: null sorts below
\* every string.
DateRank(d) ==
    IF IsNull(d) THEN 0
    ELSE CHOOSE i \in 1..Len(SaleDates) : SaleDates[i] = Val(d)

\* STARTSWITH(c.saleDate, @currentMonth): undefined (no match) on a null.
STARTSWITH(d, prefix) ==
    /\ ~IsNull(d)
    /\ Len(Val(d)) >= Len(prefix)
    /\ SubSeq(Val(d), 1, Len(prefix)) = prefix

\* now.strftime("%Y-%m") for a clock reading.
strftime_Ym(t) == IF t = 0 THEN <<"2024-03">> ELSE <<"2024-04">>

(* ------------------------------ data model ---------------------------- *)

ClientFields == {"productName", "amount", "saleDate", "customerName", "platform"}
SystemFields == {"id", "userId", "createdAt", "updatedAt"}
SaleItemFields == ClientFields \cup SystemFields

Has(p, f) == f \in DOMAIN p

\* Field(..., min_length, max_length) on a str.
StrOk(x, lo, hi) == /\ ~IsNull(x)
                    /\ Len(Val(x)) >= lo
                    /\ Len(Val(x)) <= hi

\* Field(..., gt=0) on a float (AmountOkDropGt: without gt=0).
AmountOkDropGt(x) == ~IsNull(x)
AmountOk(x) == ~IsNull(x) /\ Val(x) > 0

PlatformOk(x) == ~IsNull(x) /\ Val(x) \in Platform

\* SaleCreate: the body validates.
SaleCreateAccepts(p) ==
    /\ Has(p, "productName") /\ StrOk(p.productName, MinProductNameLen, MaxProductNameLen)
    /\ Has(p, "amount") /\ AmountOk(p.amount)
    /\ Has(p, "saleDate") /\ ~IsNull(p.saleDate)
    /\ Has(p, "customerName") =>
          (IsNull(p.customerName) \/ StrOk(p.customerName, 0, MaxCustomerNameLen))
    /\ Has(p, "platform") /\ PlatformOk(p.platform)

\* SaleUpdate: every field is Optional with default None, so a field may be
\* left out or set to null; the constraints apply to non-null values only
\* (SaleUpdateAcceptsNoGt: amount declared without gt=0).
SaleUpdateAcceptsNoGt(p) ==
    /\ Has(p, "productName") =>
          (IsNull(p.productName) \/ StrOk(p.productName, MinProductNameLen, MaxProductNameLen))
    /\ Has(p, "amount") => (IsNull(p.amount) \/ AmountOkDropGt(p.amount))
    /\ Has(p, "customerName") =>
          (IsNull(p.customerName) \/ StrOk(p.customerName, 0, MaxCustomerNameLen))
    /\ Has(p, "platform") => (IsNull(p.platform) \/ PlatformOk(p.platform))

SaleUpdateAccepts(p) ==
    /\ Has(p, "productName") =>
          (IsNull(p.productName) \/ StrOk(p.productName, MinProductNameLen, MaxProductNameLen))
    /\ Has(p, "amount") => (IsNull(p.amount) \/ AmountOk(p.amount))
    /\ Has(p, "customerName") =>
          (IsNull(p.customerName) \/ StrOk(p.customerName, 0, MaxCustomerNameLen))
    /\ Has(p, "platform") => (IsNull(p.platform) \/ PlatformOk(p.platform))

\* SaleItem(**item): the item validates as a SaleItem.
SaleItemAccepts(item) ==
    /\ SystemFields \subseteq DOMAIN item
    /\ Has(item, "productName") /\ StrOk(item.productName, MinProductNameLen, MaxProductNameLen)
    /\ Has(item, "amount") /\ AmountOk(item.amount)
    /\ Has(item, "saleDate") /\ ~IsNull(item.saleDate)
    /\ Has(item, "customerName") =>
          (IsNull(item.customerName) \/ StrOk(item.customerName, 0, MaxCustomerNameLen))
    /\ Has(item, "platform") /\ PlatformOk(item.platform)

\* SaleItem(**item): the nine declared fields; extra keys (the store's system
\* properties) are ignored, a missing customerName defaults to None.
SaleItem(item) ==
    [f \in SaleItemFields |->
        IF f \in DOMAIN item THEN item[f] ELSE Null]

\* RecentSale(**item).
RecentSaleFields == {"id", "productName", "amount", "saleDate", "platform", "customerName"}
RecentSale(item) ==
    [f \in RecentSaleFields |->
        IF f \in DOMAIN item THEN item[f] ELSE Null]

RecentSaleAccepts(item) ==
    /\ Has(item, "id")
    /\ Has(item, "productName") /\ ~IsNull(item.productName)
    /\ Has(item, "amount") /\ ~IsNull(item.amount)
    /\ Has(item, "saleDate") /\ ~IsNull(item.saleDate)
    /\ Has(item, "platform") /\ PlatformOk(item.platform)

(* --------------------------- identity extractor ----------------------- *)

\* The x-ms-client-principal header of a request, by what the decoding steps
\* make of it: whether it is there, whether base64.b64decode accepts it,
\* whether json.loads accepts the bytes, the type of the JSON value, and the
\* value of its userId member (Null: no such member, or null).
Header(present, b64ok, jsonok, type, userId) ==
    [present |-> present, b64ok |-> b64ok, jsonok |-> jsonok,
     type |-> type, userId |-> userId]

NoHeader == Header(FALSE, FALSE, FALSE, "none", Null)
BadBase64 == Header(TRUE, FALSE, FALSE, "none", Null)
NotJson == Header(TRUE, TRUE, FALSE, "none", Null)
JsonArray == Header(TRUE, TRUE, TRUE, "array", Null)
JsonNull == Header(TRUE, TRUE, TRUE, "null", Null)
ObjectNoUserId == Header(TRUE, TRUE, TRUE, "object", Null)
ObjectEmptyUserId == Header(TRUE, TRUE, TRUE, "object", Some(""))
Principal(u) == Header(TRUE, TRUE, TRUE, "object", Some(u))

BadHeaders == {NoHeader, BadBase64, NotJson, JsonArray, JsonNull,
               ObjectNoUserId, ObjectEmptyUserId}
Headers == BadHeaders \cup {Principal(u) : u \in Users}

Auth(status, userId) == [status |-> status, userId |-> userId]

\* get_current_user: 401 when the header is missing or empty; binascii.Error
\* and JSONDecodeError are ValueErrors and become 401; client_principal.get
\* on a JSON value that is no object raises AttributeError, which the except
\* clause does not catch: main.general_exception_handler answers 500.
get_current_user(h) ==
    IF ~h.present THEN Auth(401, "")
    ELSE IF ~h.b64ok THEN Auth(401, "")
    ELSE IF ~h.jsonok THEN Auth(401, "")
    ELSE IF h.type # "object" THEN Auth(500, "")
    ELSE IF IsNull(h.userId) \/ Val(h.userId) = "" THEN Auth(401, "")
    ELSE Auth(200, Val(h.userId))

get_user_id(h) == get_current_user(h)

(* ------------------------------ state --------------------------------- *)

VARIABLES
    store,      \* the documents of the container
    draws,      \* number of uuid4() draws so far
    clock,      \* the wall clock, datetime.now(timezone.utc)
    updates,    \* update_sale calls between get_sale and replace_item
    stats,      \* get_dashboard_stats calls between two of their queries
    resp,       \* the response that waits to leave the service, with what
                \* the handler was given of the request it answers (sid: the
                \* sale_id of the path; arg: ?limit; req: the body, once the
                \* identity is resolved; torn: history, a write to the
                \* tenant's partition took effect between the aggregates;
                \* lost: history, the fields on which the Sale stored just
                \* before an update's write was no longer what it had read)
    issued,     \* history: the ids of the Sales that POST returned with 201
    pristine,   \* history: the Sales that POST returned with 201 and that
                \* no replace or delete has changed since
    deleted,    \* history: (userId, id) that a DELETE answered 204 for
    client,     \* CosmosService.client is set (FALSE: degraded mode)
    fault,      \* the error the store answers a call with ("": none)
    workers     \* requests that may be between two store calls at once

vars == <<store, draws, clock, updates, stats, resp, issued, pristine, deleted,
          client, fault, workers>>

\* What no request changes.
env == <<client, fault, workers>>

(* ------------------------------ the container ------------------------- *)

\* str(uuid.uuid4()) of the n-th draw (uuid4_constant: a fixed id).
uuid4_constant(n) == <<"uuid4", 1>>
uuid4(n) == <<"uuid4", n>>

SaleIds == {uuid4(n) : n \in 1..MaxSales}

\* The document the store keeps for a body: the body and the store's own
\* system properties.
Stored(body) == ("_self" :> <<"dbs/sales-database/colls/sales/docs", body.id>>) @@ body

\* Items of a partition with an id (ItemsAnyPartition: the partition key is
\* not looked at).
ItemsAnyPartition(st, item, pk) == {d \in st : d.id = item}
Items(st, item, pk) == {d \in st : d.userId = pk /\ d.id = item}

Result(err, st, items) == [err |-> err, store |-> st, items |-> items]

\* container.create_item(body)
create_item(st, body) ==
    IF fault # "" THEN Result(fault, st, <<>>)
    ELSE IF Items(st, body.id, body.userId) # {}
    THEN Result("CosmosResourceExistsError", st, <<>>)
    ELSE Result("", st \cup {Stored(body)}, <<Stored(body)>>)

\* container.read_item(item, partition_key)
read_item(st, item, pk) ==
    IF fault # "" THEN Result(fault, st, <<>>)
    ELSE IF Items(st, item, pk) = {}
    THEN Result("CosmosResourceNotFoundError", st, <<>>)
    ELSE Result("", st, <<CHOOSE d \in Items(st, item, pk) : TRUE>>)

\* container.replace_item(item, body): the partition is the body's userId
\* (replace_item_upsert: an upsert).
replace_item_upsert(st, item, body) ==
    Result("", (st \ Items(st, item, body.userId)) \cup {Stored(body)}, <<Stored(body)>>)

replace_item(st, item, body) ==
    IF fault # "" THEN Result(fault, st, <<>>)
    ELSE IF Items(st, item, body.userId) = {}
    THEN Result("CosmosResourceNotFoundError", st, <<>>)
    ELSE Result("", (st \ Items(st, item, body.userId)) \cup {Stored(body)},
                <<Stored(body)>>)

\* container.delete_item(item, partition_key) (delete_item_all: the whole
\* partition goes).
delete_item_all(st, item, pk) ==
    IF Items(st, item, pk) = {}
    THEN Result("CosmosResourceNotFoundError", st, <<>>)
    ELSE Result("", st \ {d \in st : d.userId = pk}, <<>>)

delete_item(st, item, pk) ==
    IF fault # "" THEN Result(fault, st, <<>>)
    ELSE IF Items(st, item, pk) = {}
    THEN Result("CosmosResourceNotFoundError", st, <<>>)
    ELSE Result("", st \ Items(st, item, pk), <<>>)

\* ORDER BY c.saleDate DESC over a set of documents (ties: by id).
Before(a, b) ==
    \/ DateRank(a.saleDate) > DateRank(b.saleDate)
    \/ /\ DateRank(a.saleDate) = DateRank(b.saleDate)
       /\ a.id[2] < b.id[2]

RECURSIVE OrderBySaleDateDesc(_)
OrderBySaleDateDesc(S) ==
    IF S = {} THEN <<>>
    ELSE LET first == CHOOSE d \in S : \A e \in S \ {d} : Before(d, e)
         IN <<first>> \o OrderBySaleDateDesc(S \ {first})

\* list(container.query_items(..., max_item_count=n)): max_item_count is the
\* size of one page of the result; iterating the ItemPaged fetches page after
\* page until the result is exhausted.
RECURSIVE list_query_items(_, _)
list_query_items(rows, n) ==
    IF rows = <<>> THEN <<>>
    ELSE LET k == IF n <= 0 \/ n > Len(rows) THEN Len(rows) ELSE n
         IN SubSeq(rows, 1, k) \o list_query_items(SubSeq(rows, k + 1, Len(rows)), n)

\* SELECT * FROM c WHERE c.userId = @userId ORDER BY c.saleDate DESC
SelectByUser(st, uid) == OrderBySaleDateDesc({d \in st : d.userId = uid})

RECURSIVE SumAmounts(_)
SumAmounts(S) ==
    IF S = {} THEN 0
    ELSE LET d == CHOOSE x \in S : TRUE
         IN Val(d.amount) + SumAmounts(S \ {d})

\* SELECT VALUE SUM(c.amount): undefined (no row) when an amount is not a
\* number.
QuerySum(S) ==
    IF \E d \in S : IsNull(d.amount) THEN <<>> ELSE <<SumAmounts(S)>>

\* SELECT VALUE COUNT(1) (QueryCountCustomerName: COUNT(c.customerName),
\* which leaves out the documents whose customerName is null).
QueryCountCustomerName(S) == <<Cardinality({d \in S : ~IsNull(d.customerName)})>>
QueryCount(S) == <<Cardinality(S)>>

Fraction(n, d) == [num |-> n, den |-> d]

\* SELECT VALUE AVG(c.amount): undefined over no rows or a non-number.
QueryAvg(S) ==
    IF S = {} \/ \E d \in S : IsNull(d.amount) THEN <<>>
    ELSE <<Fraction(SumAmounts(S), Cardinality(S))>>

\* result[0] if result and result[0] is not None else 0
FirstOrZero(result) == IF result = <<>> THEN 0 ELSE result[1]
FirstOrZeroFraction(result) == IF result = <<>> THEN Fraction(0, 1) ELSE result[1]

(* ------------------------------ requests ------------------------------ *)

\* Bodies of POST /api/sales.
Widget == [productName |-> Some("Widget"), amount |-> Some(10),
           saleDate |-> Some(DateMar), platform |-> Some("manual")]
CreateBodies ==
    {Widget,
     [Widget EXCEPT !.amount = Some(0)],
     [Widget EXCEPT !.productName = Some("")]}

\* Bodies of PUT /api/sales/{sale_id}.
UpdateBodies ==
    {[amount |-> Some(185)],
     [productName |-> Some("Nike Air Jordan 1 Retro")],
     [amount |-> Null],
     [amount |-> Some(-5)]}

\* ?limit= of GET /api/dashboard/recent.
RecentLimits == {1, 100}

Response(route, status, user, sid, arg, body) ==
    [route |-> route, status |-> status, user |-> user, sid |-> sid,
     arg |-> arg, req |-> <<>>, body |-> body, torn |-> FALSE, lost |-> {}]

NoResponse == Response("none", 0, "", <<>>, 0, <<>>)

Key(d) == <<d.userId, d.id>>

\* pristine without the Sale of a key.
Untouched(uid, sid) == {p \in pristine : Key(p) # <<uid, sid>>}

Inflight == Cardinality(updates) + Cardinality(stats)

\* A write to a tenant's partition takes effect: the stats requests of that
\* tenant that are between two of their four aggregates have now seen two
\* snapshots.
MarkDirty(uid) ==
    {[s EXCEPT !.dirty = s.dirty \/ (s.user = uid /\ s.pc <= 4)] : s \in stats}

Init ==
    /\ store = {}
    /\ draws = 0
    /\ clock = 0
    /\ updates = {}
    /\ stats = {}
    /\ resp = NoResponse
    /\ issued = {}
    /\ pristine = {}
    /\ deleted = {}
    /\ client = TRUE
    /\ fault = ""
    /\ workers = MaxInflight

\* No response is waiting to leave the service.
Idle == resp = NoResponse

\* The wall clock advances.
Tick ==
    /\ clock < MaxClock
    /\ clock' = clock + 1
    /\ UNCHANGED <<env, store, draws, updates, stats, resp, issued, pristine, deleted>>

\* The response leaves the service.
Deliver ==
    /\ ~Idle
    /\ resp' = NoResponse
    /\ UNCHANGED <<env, store, draws, clock, updates, stats, issued, pristine, deleted>>

\* A request ends with a response and changes nothing.
Answer(r) ==
    /\ resp' = r
    /\ UNCHANGED <<env, store, draws, clock, updates, stats, issued, pristine, deleted>>

(* ------------------------------ main.py ------------------------------- *)

\* GET /
root(h) == Answer(Response("root", 200, "", <<>>, 0, <<>>))

\* GET /health
health_check(h) == Answer(Response("health", 200, "", <<>>, 0, <<>>))

\* GET /api/user
get_user_info(h) ==
    LET a == get_current_user(h)
    IN Answer(Response("user", a.status, a.userId, <<>>, 0, <<>>))

(* ---------------------------- cosmos_service -------------------------- *)

Outcome(kind, st, value) == [kind |-> kind, store |-> st, value |-> value]

\* CosmosService.create_sale: without a client the SaleItem is made up and
\* returned, and nothing is stored.
create_sale(st, uid, body, now, n) ==
    LET sale_item == [id |-> uuid4(n),
                      userId |-> uid,
                      productName |-> body.productName,
                      amount |-> body.amount,
                      saleDate |-> body.saleDate,
                      customerName |-> IF Has(body, "customerName")
                                       THEN body.customerName ELSE Null,
                      platform |-> body.platform,
                      createdAt |-> now,
                      updatedAt |-> now]
        r == create_item(st, sale_item)
    IN  IF ~SaleItemAccepts(sale_item) THEN Outcome("ValueError", st, <<>>)
        ELSE IF ~client THEN Outcome("ok", st, <<sale_item>>)
        ELSE IF r.err = "CosmosResourceExistsError" THEN Outcome("ValueError", st, <<>>)
        ELSE IF r.err # "" THEN Outcome("RuntimeError", st, <<>>)
        ELSE IF ~SaleItemAccepts(r.items[1]) THEN Outcome("RuntimeError", r.store, <<>>)
        ELSE Outcome("ok", r.store, <<SaleItem(r.items[1])>>)

\* CosmosService.get_sale (get_sale_swapped: item and partition_key passed
\* the wrong way round, so that no item is ever found).
get_sale_swapped(st, uid, sid) == Outcome("None", st, <<>>)

\* (get_sale_swallow: every error of read_item is taken as not found.)
get_sale_swallow(st, uid, sid) ==
    LET r == read_item(st, sid, uid)
    IN  IF r.err # "" THEN Outcome("None", st, <<>>)
        ELSE Outcome("ok", st, <<SaleItem(r.items[1])>>)

get_sale(st, uid, sid) ==
    LET r == read_item(st, sid, uid)
    IN  IF ~client THEN Outcome("RuntimeError", st, <<>>)
        ELSE IF r.err = "CosmosResourceNotFoundError" THEN Outcome("None", st, <<>>)
        ELSE IF r.err # "" THEN Outcome("RuntimeError", st, <<>>)
        ELSE IF ~SaleItemAccepts(r.items[1]) THEN Outcome("RuntimeError", st, <<>>)
        ELSE Outcome("ok", st, <<SaleItem(r.items[1])>>)

\* [Model(**item) for item in items]
EachSaleItem(rows) == [i \in 1..Len(rows) |-> SaleItem(rows[i])]

EachRecentSale(rows) == [i \in 1..Len(rows) |-> RecentSale(rows[i])]

\* CosmosService.get_sales_by_user
get_sales_by_user(st, uid, limit) ==
    LET items == list_query_items(SelectByUser(st, uid), limit)
    IN  IF ~client THEN Outcome("ok", st, <<>>)
        ELSE IF fault # "" THEN Outcome("RuntimeError", st, <<>>)
        ELSE IF \E i \in 1..Len(items) : ~SaleItemAccepts(items[i])
        THEN Outcome("RuntimeError", st, <<>>)
        ELSE Outcome("ok", st, EachSaleItem(items))

\* CosmosService.get_recent_sales
get_recent_sales(st, uid, limit) ==
    LET items == list_query_items(SelectByUser(st, uid), limit)
    IN  IF ~client THEN Outcome("ok", st, <<>>)
        ELSE IF fault # "" THEN Outcome("RuntimeError", st, <<>>)
        ELSE IF \E i \in 1..Len(items) : ~RecentSaleAccepts(items[i])
        THEN Outcome("RuntimeError", st, <<>>)
        ELSE Outcome("ok", st, EachRecentSale(items))

\* update_data.model_dump(exclude_unset=True), then updated_data.update(...)
\* (MergeStampsCreatedAt: createdAt is stamped along with updatedAt).
MergeStampsCreatedAt(existing, body, now) ==
    [f \in SaleItemFields |->
        IF f \in {"updatedAt", "createdAt"} THEN now
        ELSE IF f \in DOMAIN body THEN body[f]
        ELSE existing[f]]

Merge(existing, body, now) ==
    [f \in SaleItemFields |->
        IF f = "updatedAt" THEN now
        ELSE IF f \in DOMAIN body THEN body[f]
        ELSE existing[f]]

\* CosmosService.update_sale, from replace_item on
\* (update_sale_write_checked: the write is refused when the stored Sale is
\* no longer the one that was read, as with an etag and if-match).
update_sale_write_checked(st, existing, sid, body, now) ==
    LET r == replace_item(st, sid, Merge(existing, body, now))
    IN  IF r.err = "CosmosResourceNotFoundError" THEN Outcome("None", st, <<>>)
        ELSE IF \E d \in Items(st, sid, existing.userId) : SaleItem(d) # existing
             THEN Outcome("RuntimeError", st, <<>>)
        ELSE Outcome("ok", r.store, <<SaleItem(r.items[1])>>)

update_sale_write(st, existing, sid, body, now) ==
    LET r == replace_item(st, sid, Merge(existing, body, now))
    IN  IF r.err = "CosmosResourceNotFoundError" THEN Outcome("None", st, <<>>)
        ELSE IF r.err # "" THEN Outcome("RuntimeError", st, <<>>)
        ELSE IF ~SaleItemAccepts(r.items[1]) THEN Outcome("RuntimeError", r.store, <<>>)
        ELSE Outcome("ok", r.store, <<SaleItem(r.items[1])>>)

\* CosmosService.delete_sale
delete_sale(st, uid, sid) ==
    LET r == delete_item(st, sid, uid)
    IN  IF ~client THEN Outcome("RuntimeError", st, <<>>)
        ELSE IF r.err = "CosmosResourceNotFoundError" THEN Outcome("False", st, <<>>)
        ELSE IF r.err # "" THEN Outcome("RuntimeError", st, <<>>)
        ELSE Outcome("True", r.store, <<>>)

(* ------------------------------ api/sales.py -------------------------- *)

\* Status of a request that the framework ends before the handler runs: the
\* dependency get_user_id is solved first, then the body is validated
\* (RequestValidationError, 422).  0: the handler runs.
StatusBeforeHandler(a, bodyOk) ==
    IF a.status # 200 THEN a.status
    ELSE IF ~bodyOk THEN 422
    ELSE 0

\* GET /api/sales/
get_sales(h) ==
    LET a == get_user_id(h)
        early == StatusBeforeHandler(a, TRUE)
        o == get_sales_by_user(store, a.userId, 100)
    IN  IF early # 0 THEN Answer(Response("list", early, a.userId, <<>>, 0, <<>>))
        ELSE IF o.kind = "ok"
             THEN Answer(Response("list", 200, a.userId, <<>>, 0, o.value))
        ELSE Answer(Response("list", 500, a.userId, <<>>, 0, <<>>))

\* POST /api/sales/
create_sale_route(h, body) ==
    LET a == get_user_id(h)
        early == StatusBeforeHandler(a, SaleCreateAccepts(body))
        o == create_sale(store, a.userId, body, clock, draws + 1)
    IN  IF early # 0
        THEN Answer([Response("create", early, a.userId, <<>>, 0, <<>>)
                        EXCEPT !.req = IF a.status = 200 THEN body ELSE <<>>])
        ELSE /\ draws < MaxSales
             /\ draws' = draws + 1
             /\ store' = o.store
             /\ stats' = IF o.store # store THEN MarkDirty(a.userId) ELSE stats
             /\ resp' = [Response("create",
                                  CASE o.kind = "ok" -> 201
                                    [] o.kind = "ValueError" -> 400
                                    [] OTHER -> 500,
                                  a.userId, <<>>, 0, o.value)
                             EXCEPT !.req = body]
             /\ issued' = IF o.kind = "ok" THEN issued \cup {o.value[1].id} ELSE issued
             /\ pristine' = IF o.kind = "ok" THEN pristine \cup {o.value[1]} ELSE pristine
             /\ UNCHANGED <<env, clock, updates, deleted>>

\* GET /api/sales/{sale_id}
get_sale_route(h, sid) ==
    LET a == get_user_id(h)
        early == StatusBeforeHandler(a, TRUE)
        o == get_sale(store, a.userId, sid)
    IN  IF early # 0 THEN Answer(Response("get", early, a.userId, <<>>, 0, <<>>))
        ELSE Answer(Response("get",
                             CASE o.kind = "ok" -> 200
                               [] o.kind = "None" -> 404
                               [] OTHER -> 500,
                             a.userId, sid, 0, o.value))

\* An update_sale call that has read the existing item.
PendingUpdate(uid, sid, body, existing, readAt) ==
    [user |-> uid, sid |-> sid, body |-> body, existing |-> existing,
     readAt |-> readAt]

\* PUT /api/sales/{sale_id}, up to and including get_sale.
update_sale_read(h, sid, body) ==
    LET a == get_user_id(h)
        early == StatusBeforeHandler(a, SaleUpdateAccepts(body))
        o == get_sale(store, a.userId, sid)
    IN  IF early # 0
        THEN Answer([Response("update", early, a.userId, <<>>, 0, <<>>)
                        EXCEPT !.req = IF a.status = 200 THEN body ELSE <<>>])
        ELSE IF o.kind = "None"
             THEN Answer([Response("update", 404, a.userId, sid, 0, <<>>)
                             EXCEPT !.req = body])
        ELSE IF o.kind # "ok"
             THEN Answer([Response("update", 500, a.userId, sid, 0, <<>>)
                             EXCEPT !.req = body])
        ELSE /\ Inflight < workers
             /\ updates' = updates \cup
                    {PendingUpdate(a.userId, sid, body, o.value[1], clock)}
             /\ UNCHANGED <<env, store, draws, clock, stats, resp, issued, pristine, deleted>>

\* PUT /api/sales/{sale_id}, from the time stamp on: updatedAt is a reading
\* of the clock taken between get_sale and replace_item.
update_sale_write_step(u, now) ==
    LET o == update_sale_write(store, u.existing, u.sid, u.body, now)
        found == Items(store, u.sid, u.user)
        lost == IF found = {} THEN SaleItemFields
                ELSE {f \in SaleItemFields : \E d \in found : d[f] # u.existing[f]}
    IN  /\ u \in updates
        /\ now \in u.readAt..clock
        /\ updates' = updates \ {u}
        /\ store' = o.store
        /\ stats' = IF o.store # store THEN MarkDirty(u.user) ELSE stats
        /\ pristine' = IF o.store # store THEN Untouched(u.user, u.sid) ELSE pristine
        /\ resp' = [Response("update",
                             CASE o.kind = "ok" -> 200
                               [] o.kind = "None" -> 404
                               [] OTHER -> 500,
                             u.user, u.sid, 0, o.value)
                        EXCEPT !.req = u.body, !.lost = lost]
        /\ UNCHANGED <<env, draws, clock, issued, deleted>>

\* DELETE /api/sales/{sale_id}
delete_sale_route(h, sid) ==
    LET a == get_user_id(h)
        early == StatusBeforeHandler(a, TRUE)
        o == delete_sale(store, a.userId, sid)
    IN  IF early # 0 THEN Answer(Response("delete", early, a.userId, <<>>, 0, <<>>))
        ELSE /\ store' = o.store
             /\ stats' = IF o.store # store THEN MarkDirty(a.userId) ELSE stats
             /\ pristine' = IF o.kind = "True" THEN Untouched(a.userId, sid) ELSE pristine
             /\ deleted' = IF o.kind = "True" THEN deleted \cup {<<a.userId, sid>>} ELSE deleted
             /\ resp' = Response("delete",
                                 CASE o.kind = "True" -> 204
                                   [] o.kind = "False" -> 404
                                   [] OTHER -> 500,
                                 a.userId, sid, 0, <<>>)
             /\ UNCHANGED <<env, draws, clock, updates, issued>>

(* ---------------------------- api/dashboard.py ------------------------ *)

Min(a, b) == IF a < b THEN a ELSE b

\* A get_dashboard_stats call: pc is the query it issues next (2: COUNT,
\* 3: AVG, 4: SUM of the month; 5: the recent sales of GET /api/dashboard/).
\* GET /api/dashboard/stats and GET /api/dashboard/ make the same call, so
\* the record does not keep which of the two routes it serves: after the
\* fourth aggregate it is taken as either.
PendingStats(uid, pc, month, sum, count, avg, thisMonth, dirty) ==
    [user |-> uid, pc |-> pc, month |-> month, sum |-> sum,
     count |-> count, avg |-> avg, thisMonth |-> thisMonth, dirty |-> dirty]

\* WHERE c.userId = @userId (TenantAnyUser: without the WHERE clause).
TenantAnyUser(st, uid) == st
Tenant(st, uid) == {d \in st : d.userId = uid}

\* DashboardStats(totalSales=float(..), totalItems=int(..), ...)
DashboardStats(sum, count, avg, thisMonth) ==
    [totalSales |-> FirstOrZero(sum),
     totalItems |-> FirstOrZero(count),
     thisMonth |-> FirstOrZero(thisMonth),
     avgPrice |-> FirstOrZeroFraction(avg)]

\* A query of get_dashboard_stats fails: RuntimeError, which either route
\* answers with 500.
stats_fail(s) ==
    /\ s \in stats /\ s.pc <= 4
    /\ fault # ""
    /\ stats' = stats \ {s}
    /\ \E route \in {"stats", "dashboard"} :
          resp' = Response(route, 500, s.user, <<>>, 0, <<>>)
    /\ UNCHANGED <<env, store, draws, clock, updates, issued, pristine, deleted>>

\* GET /api/dashboard/stats and GET /api/dashboard/: the identity, the
\* current month and the first aggregate, SUM(c.amount).  Without a client
\* the statistics are all zero and the recent sales are none.
stats_begin(h, route) ==
    LET a == get_user_id(h)
        early == StatusBeforeHandler(a, TRUE)
        zero == DashboardStats(<<>>, <<>>, <<>>, <<>>)
        recent == get_recent_sales(store, a.userId, CombinedRecentLimit)
    IN  IF early # 0 THEN Answer(Response(route, early, a.userId, <<>>, 0, <<>>))
        ELSE IF ~client
             THEN Answer(Response(route, 200, a.userId, <<>>, 0,
                                  IF route = "stats" THEN <<zero>>
                                  ELSE <<zero>> \o recent.value))
        ELSE IF fault # ""
             THEN Answer(Response(route, 500, a.userId, <<>>, 0, <<>>))
        ELSE /\ Inflight < workers
             /\ stats' = stats \cup
                    {PendingStats(a.userId, 2, strftime_Ym(clock),
                                  QuerySum(Tenant(store, a.userId)),
                                  <<>>, <<>>, <<>>, FALSE)}
             /\ UNCHANGED <<env, store, draws, clock, updates, resp, issued, pristine, deleted>>

\* The second aggregate, COUNT(1).
stats_count(s) ==
    /\ s \in stats /\ s.pc = 2
    /\ fault = ""
    /\ stats' = (stats \ {s}) \cup
           {[s EXCEPT !.pc = 3, !.count = QueryCount(Tenant(store, s.user))]}
    /\ UNCHANGED <<env, store, draws, clock, updates, resp, issued, pristine, deleted>>

\* The third aggregate, AVG(c.amount).
stats_avg(s) ==
    /\ s \in stats /\ s.pc = 3
    /\ fault = ""
    /\ stats' = (stats \ {s}) \cup
           {[s EXCEPT !.pc = 4, !.avg = QueryAvg(Tenant(store, s.user))]}
    /\ UNCHANGED <<env, store, draws, clock, updates, resp, issued, pristine, deleted>>

\* The fourth aggregate, SUM(c.amount) of the current month, and the
\* DashboardStats: GET /api/dashboard/stats ends here, GET /api/dashboard/
\* goes on to the recent sales.
stats_month(s) ==
    LET thisMonth == QuerySum({d \in Tenant(store, s.user) :
                                  STARTSWITH(d.saleDate, s.month)})
        value == DashboardStats(s.sum, s.count, s.avg, thisMonth)
    IN  /\ s \in stats /\ s.pc = 4
        /\ fault = ""
        /\ \/ /\ stats' = stats \ {s}
              /\ resp' = [Response("stats", 200, s.user, <<>>, 0, <<value>>)
                              EXCEPT !.torn = s.dirty]
           \/ /\ stats' = (stats \ {s}) \cup
                      {[s EXCEPT !.pc = 5, !.thisMonth = thisMonth]}
              /\ resp' = resp
        /\ UNCHANGED <<env, store, draws, clock, updates, issued, pristine, deleted>>

\* GET /api/dashboard/: the five recent sales after the statistics.
dashboard_recent(s) ==
    LET value == DashboardStats(s.sum, s.count, s.avg, s.thisMonth)
        o == get_recent_sales(store, s.user, CombinedRecentLimit)
    IN  /\ s \in stats /\ s.pc = 5
        /\ stats' = stats \ {s}
        /\ resp' = IF o.kind = "ok"
                   THEN [Response("dashboard", 200, s.user, <<>>, 0, <<value>> \o o.value)
                            EXCEPT !.torn = s.dirty]
                   ELSE Response("dashboard", 500, s.user, <<>>, 0, <<>>)
        /\ UNCHANGED <<env, store, draws, clock, updates, issued, pristine, deleted>>

\* GET /api/dashboard/recent?limit=N
get_recent_sales_route(h, limit) ==
    LET a == get_user_id(h)
        early == StatusBeforeHandler(a, TRUE)
        o == get_recent_sales(store, a.userId, Min(limit, HardCap))
    IN  IF early # 0 THEN Answer(Response("recent", early, a.userId, <<>>, 0, <<>>))
        ELSE IF o.kind = "ok"
             THEN Answer(Response("recent", 200, a.userId, <<>>, limit, o.value))
        ELSE Answer(Response("recent", 500, a.userId, <<>>, limit, <<>>))

(* ------------------------------ the service --------------------------- *)

\* A request is taken, or a request goes on, while no response waits.
Next ==
    \/ Idle /\ Tick
    \/ Idle /\ \E h \in Headers : root(h)
    \/ Idle /\ \E h \in Headers : health_check(h)
    \/ Idle /\ \E h \in Headers : get_user_info(h)
    \/ Idle /\ \E h \in Headers : get_sales(h)
    \/ Idle /\ \E h \in Headers, body \in CreateBodies : create_sale_route(h, body)
    \/ Idle /\ \E h \in Headers, sid \in SaleIds : get_sale_route(h, sid)
    \/ Idle /\ \E h \in Headers, sid \in SaleIds, body \in UpdateBodies :
                  update_sale_read(h, sid, body)
    \/ Idle /\ \E u \in updates, now \in 0..MaxClock : update_sale_write_step(u, now)
    \/ Idle /\ \E h \in Headers, sid \in SaleIds : delete_sale_route(h, sid)
    \/ Idle /\ \E h \in Headers, route \in {"stats", "dashboard"} : stats_begin(h, route)
    \/ Idle /\ \E s \in stats : stats_count(s)
    \/ Idle /\ \E s \in stats : stats_avg(s)
    \/ Idle /\ \E s \in stats : stats_month(s)
    \/ Idle /\ \E s \in stats : dashboard_recent(s)
    \/ Idle /\ \E h \in Headers, limit \in RecentLimits : get_recent_sales_route(h, limit)
    \/ Deliver

Spec == Init /\ [][Next]_vars

(* --------------------------- degraded mode ---------------------------- *)

\* CosmosService.__init__ with a placeholder or unusable connection string:
\* client, database and container stay None.
InitDegraded ==
    /\ store = {}
    /\ draws = 0
    /\ clock = 0
    /\ updates = {}
    /\ stats = {}
    /\ resp = NoResponse
    /\ issued = {}
    /\ pristine = {}
    /\ deleted = {}
    /\ client = FALSE
    /\ fault = ""
    /\ workers = MaxInflight

\* The requests of the service without a client: none of them gets as far
\* as a second store call.
NextDegraded ==
    \/ Idle /\ Tick
    \/ Idle /\ \E h \in Headers : get_sales(h)
    \/ Idle /\ \E h \in Headers, body \in CreateBodies : create_sale_route(h, body)
    \/ Idle /\ \E h \in Headers, sid \in SaleIds : get_sale_route(h, sid)
    \/ Idle /\ \E h \in Headers, sid \in SaleIds, body \in UpdateBodies :
                  update_sale_read(h, sid, body)
    \/ Idle /\ \E h \in Headers, sid \in SaleIds : delete_sale_route(h, sid)
    \/ Idle /\ \E h \in Headers, route \in {"stats", "dashboard"} : stats_begin(h, route)
    \/ Idle /\ \E h \in Headers, limit \in RecentLimits : get_recent_sales_route(h, limit)
    \/ Deliver

SpecDegraded == InitDegraded /\ [][NextDegraded]_vars

(* --------------------------- racing updates --------------------------- *)

\* The service with a store connection and two requests at a time between
\* their store calls.
InitRace ==
    /\ store = {}
    /\ draws = 0
    /\ clock = 0
    /\ updates = {}
    /\ stats = {}
    /\ resp = NoResponse
    /\ issued = {}
    /\ pristine = {}
    /\ deleted = {}
    /\ client = TRUE
    /\ fault = ""
    /\ workers = RaceWorkers

\* Bodies of the racing PUTs: one sets the amount, one the product name.
RaceBodies ==
    {[amount |-> Some(185)],
     [productName |-> Some("Nike Air Jordan 1 Retro")]}

\* One tenant creates Sales and updates them, two updates at a time.
NextRace ==
    \/ Idle /\ Tick
    \/ Idle /\ create_sale_route(Principal("A"), Widget)
    \/ Idle /\ \E sid \in SaleIds, body \in RaceBodies :
                  update_sale_read(Principal("A"), sid, body)
    \/ Idle /\ \E u \in updates, now \in 0..MaxClock : update_sale_write_step(u, now)
    \/ Deliver

SpecRace == InitRace /\ [][NextRace]_vars

(* --------------------------- a failing store -------------------------- *)

\* The errors of a store call other than not-found: a failed request
\* (CosmosHttpResponseError: throttled, unavailable, timed out) and, for
\* create_item, an id that is taken (CosmosResourceExistsError).
StoreErrors == {"CosmosHttpResponseError", "CosmosResourceExistsError"}

\* The store begins to answer its calls with an error.
Fail(e) ==
    /\ fault = ""
    /\ fault' = e
    /\ UNCHANGED <<store, draws, clock, updates, stats, resp, issued, pristine,
                   deleted, client, workers>>

\* The store answers its calls again.
Recover ==
    /\ fault # ""
    /\ fault' = ""
    /\ UNCHANGED <<store, draws, clock, updates, stats, resp, issued, pristine,
                   deleted, client, workers>>

\* The requests of one tenant against a store whose calls can fail.
NextFaults ==
    \/ Idle /\ \E e \in StoreErrors : Fail(e)
    \/ Idle /\ Recover
    \/ Idle /\ get_sales(Principal("A"))
    \/ Idle /\ create_sale_route(Principal("A"), Widget)
    \/ Idle /\ \E sid \in SaleIds : get_sale_route(Principal("A"), sid)
    \/ Idle /\ \E sid \in SaleIds, body \in RaceBodies :
                  update_sale_read(Principal("A"), sid, body)
    \/ Idle /\ \E u \in updates, now \in 0..MaxClock : update_sale_write_step(u, now)
    \/ Idle /\ \E sid \in SaleIds : delete_sale_route(Principal("A"), sid)
    \/ Idle /\ \E route \in {"stats", "dashboard"} : stats_begin(Principal("A"), route)
    \/ Idle /\ \E s \in stats : stats_count(s)
    \/ Idle /\ \E s \in stats : stats_avg(s)
    \/ Idle /\ \E s \in stats : stats_month(s)
    \/ Idle /\ \E s \in stats : stats_fail(s)
    \/ Idle /\ \E s \in stats : dashboard_recent(s)
    \/ Idle /\ \E limit \in RecentLimits : get_recent_sales_route(Principal("A"), limit)
    \/ Deliver

SpecFaults == Init /\ [][NextFaults]_vars

(* ------------------------------ properties ---------------------------- *)

Keys(st) == {Key(d) : d \in st}

\* The routes that take the identity of the caller.
ProtectedRoutes == {"user", "list", "create", "get", "update", "delete",
                    "stats", "dashboard", "recent"}

\* A response to a caller whose identity was resolved.
Identified(r) == r.user \in Users

\* The ids of the Sales in a response body.
BodyIds(r) == {r.body[i].id : i \in {j \in 1..Len(r.body) : "id" \in DOMAIN r.body[j]}}

\* The owners named in a response body.
BodyOwners(r) ==
    {r.body[i].userId : i \in {j \in 1..Len(r.body) : "userId" \in DOMAIN r.body[j]}}

\* A response shows its caller nothing of another tenant: no Sale with
\* another owner, no id of a document stored for another tenant.
ShowsOwnOnly(r) ==
    Identified(r) =>
        /\ BodyOwners(r) \subseteq {r.user}
        /\ \A d \in store : d.userId # r.user => d.id \notin BodyIds(r)

\* get, update and delete on the id of another tenant's stored Sale answer
\* 404 (an update is answered once its body validates).
ForeignIdNotFound(r) ==
    /\ r.route \in {"get", "update", "delete"}
    /\ Identified(r)
    /\ r.status # 422
    /\ \E d \in store : d.id = r.sid /\ d.userId # r.user
    => r.status = 404

\* C1. Tenant isolation: in every step, the response shows the caller only
\* Sales of the caller's own tenant; get, update and delete by a tenant on the
\* id of a Sale stored for another tenant answer 404; and a stored Sale is
\* changed or removed only by an update or delete of its own tenant.
TenantIsolation ==
    [][/\ ShowsOwnOnly(resp')
       /\ ForeignIdNotFound(resp')
       /\ \A d \in store :
             d \notin store' =>
                 /\ resp'.route \in {"update", "delete"}
                 /\ resp'.user = d.userId
                 /\ resp'.sid = d.id]_vars

\* Tenant B asks for the id of a Sale stored for tenant A and is told 404.
TenantIsolationWitness ==
    /\ resp.route = "get" /\ resp.status = 404 /\ resp.user = "B"
    /\ \E d \in store : d.id = resp.sid /\ d.userId = "A"

\* C2 (as claimed). A protected route answers a request without a usable
\* identity with 401 and no data.
FailsClosed ==
    (resp.route \in ProtectedRoutes /\ ~Identified(resp))
        => (resp.status = 401 /\ resp.body = <<>>)

\* C3 (as claimed). Every stored Sale has an amount, and it is positive.
StoredAmountPositive ==
    \A d \in store : ~IsNull(d.amount) /\ Val(d.amount) > 0

BreaksAmountConstraint(body) ==
    /\ "amount" \in DOMAIN body
    /\ ~IsNull(body.amount)
    /\ Val(body.amount) <= 0

IsStats(r) == r.route \in {"stats", "dashboard"} /\ r.status = 200
StatsOf(r) == r.body[1]

ZeroItemsZeroTotals(st) ==
    st.totalItems = 0 => (st.totalSales = 0 /\ st.avgPrice.num = 0)

\* C6 (as claimed). Every Dashboard Stats value has totalItems = 0 only with
\* totalSales = 0 and avgPrice = 0, whatever takes effect between the four
\* aggregate queries.
StatsZeroInvariant ==
    IsStats(resp) => ZeroItemsZeroTotals(StatsOf(resp))

\* C6 (amended). The same, for the stats requests during which no create,
\* update or delete of the tenant took effect between the first and the last
\* of the four aggregate queries.
StatsZeroInvariantQuiet ==
    (IsStats(resp) /\ ~resp.torn) => ZeroItemsZeroTotals(StatsOf(resp))

\* A tenant with no Sale left, after one was created and deleted, is
\* answered all-zero statistics by an undisturbed stats request.
StatsZeroInvariantQuietWitness ==
    /\ resp.route = "stats" /\ resp.status = 200 /\ ~resp.torn
    /\ StatsOf(resp).totalItems = 0
    /\ StatsOf(resp).totalSales = 0
    /\ <<resp.user, uuid4(1)>> \in deleted
    /\ \E d \in store : d.userId # resp.user

\* C7 (as claimed). GET /api/dashboard/recent returns at most 20 items, and
\* at most the limit asked for when that is below 20.
RecentCapped ==
    (resp.route = "recent" /\ resp.status = 200)
        => Len(resp.body) <= Min(resp.arg, HardCap)

\* C8. Delete reports whether the item existed: a DELETE of an id stored for
\* the caller answers 204 and removes exactly that Sale, any other DELETE
\* answers 404 and changes nothing; once a DELETE has answered 204, the id is
\* never stored for that tenant again and every later get, update (with a
\* body that validates) or delete of it by that tenant answers 404.
DeleteReportsExistence ==
    [][/\ (resp'.route = "delete" /\ Identified(resp')) =>
             IF <<resp'.user, resp'.sid>> \in Keys(store)
             THEN /\ resp'.status = 204
                  /\ store' = {d \in store : Key(d) # <<resp'.user, resp'.sid>>}
                  /\ Cardinality(store') = Cardinality(store) - 1
             ELSE /\ resp'.status = 404
                  /\ store' = store
       /\ (/\ resp'.route \in {"get", "update", "delete"}
           /\ Identified(resp')
           /\ resp'.status # 422
           /\ <<resp'.user, resp'.sid>> \in deleted) => resp'.status = 404
       /\ deleted \cap Keys(store') = {}
       /\ deleted \subseteq deleted']_vars

\* The same DELETE a second time: 404, with the tenant's other Sale still
\* stored.
DeleteReportsExistenceWitness ==
    /\ resp.route = "delete" /\ resp.status = 404
    /\ <<resp.user, resp.sid>> \in deleted
    /\ \E d \in store : d.userId = resp.user

\* C9. Round trip: a Sale that create returned and that no update or delete
\* has touched since is what get_sale finds for its owner and id, and what
\* GET /api/sales/{id} answers its owner with status 200.
CreateGetRoundTrip ==
    /\ \A s \in pristine :
          LET o == get_sale(store, s.userId, s.id)
          IN  o.kind = "ok" /\ o.value = <<s>>
    /\ (/\ resp.route = "get"
        /\ Identified(resp)
        /\ <<resp.user, resp.sid>> \in Keys(pristine))
       => (resp.status = 200 /\ resp.body \in {<<s>> : s \in pristine})

\* A tenant with two untouched Sales has been answered the second one.
CreateGetRoundTripWitness ==
    /\ resp.route = "get" /\ resp.status = 200
    /\ resp.sid = uuid4(2)
    /\ resp.body[1] \in pristine
    /\ Cardinality({s \in pristine : s.userId = resp.user}) = 2
    /\ clock > resp.body[1].createdAt

\* C10. The Sale that create returns with 201 has an amount above zero, the
\* caller as userId, createdAt = updatedAt, a non-empty id that no earlier
\* create returned, and the fields of the body.
CreatedSaleWellFormed ==
    [][(resp'.route = "create" /\ resp'.status = 201) =>
          LET s == resp'.body[1]
          IN  /\ Len(resp'.body) = 1
              /\ ~IsNull(s.amount) /\ Val(s.amount) > 0
              /\ Identified(resp') /\ s.userId = resp'.user
              /\ s.id # <<>>
              /\ s.id \notin issued
              /\ s.id \notin {d.id : d \in store}
              /\ s.createdAt = s.updatedAt
              /\ \A f \in DOMAIN resp'.req : s[f] = resp'.req[f]]_vars

\* A second create, by another tenant and at a later time than the first.
CreatedSaleWellFormedWitness ==
    /\ resp.route = "create" /\ resp.status = 201
    /\ Cardinality(issued) = 2
    /\ resp.body[1].createdAt = 1
    /\ \E d \in store : d.userId # resp.user /\ d.createdAt = 0

\* All-zero Dashboard Stats.
ZeroStats == DashboardStats(<<>>, <<>>, <<>>, <<>>)

\* C11 (as claimed). Degraded mode: without a store connection, a read is
\* answered without an error and with nothing in it (list and recent: an
\* empty list; get: absent, 404; stats and dashboard: all-zero statistics),
\* and a write (create, update, delete) is answered with an error status.
DegradedReadsEmptyWritesFail ==
    (~client /\ Identified(resp)) =>
        /\ resp.route \in {"list", "recent"} =>
              (resp.status = 200 /\ resp.body = <<>>)
        /\ resp.route = "get" => (resp.status = 404 /\ resp.body = <<>>)
        /\ resp.route = "stats" =>
              (resp.status = 200 /\ resp.body = <<ZeroStats>>)
        /\ resp.route = "dashboard" =>
              (resp.status = 200 /\ resp.body = <<ZeroStats>>)
        /\ resp.route \in {"create", "update", "delete"} =>
              (resp.status >= 400 /\ resp.body = <<>>)

\* C12 (as claimed). Each update that answers 200 leaves the stored Sale
\* with an updatedAt strictly greater than the updatedAt it had just before
\* that update wrote, and than its createdAt.
UpdatedAtStrictlyIncreases ==
    [][\A u \in updates \ updates' :
          resp'.status = 200 =>
              \A d \in Items(store, u.sid, u.user) :
                  \A e \in Items(store', u.sid, u.user) :
                      /\ e.updatedAt > d.updatedAt
                      /\ e.updatedAt > d.createdAt]_vars

\* The reference statistics of a set of Sales for a year-month: the count,
\* the total of the amounts, the total of the amounts of the Sales whose
\* saleDate begins with the year-month; a total over a null amount is null
\* and counts as 0.  The average is not a field: it is compared as
\* totalSales / totalItems.
RECURSIVE ReferenceTotal(_)
ReferenceTotal(S) ==
    IF S = {} THEN 0
    ELSE LET d == CHOOSE x \in S : TRUE
         IN  IF d.amount = Null \/ ReferenceTotal(S \ {d}) = -1 THEN -1
             ELSE d.amount[1] + ReferenceTotal(S \ {d})

ReferenceOrZero(S) == IF ReferenceTotal(S) = -1 THEN 0 ELSE ReferenceTotal(S)

InMonth(S, month) ==
    {d \in S : d.saleDate # Null /\ d.saleDate[1][1] = month[1]}

MatchesReference(st, S, month) ==
    /\ st.totalItems = Cardinality(S)
    /\ st.totalSales = ReferenceOrZero(S)
    /\ st.thisMonth = ReferenceOrZero(InMonth(S, month))
    /\ st.avgPrice.num * st.totalItems = st.totalSales * st.avgPrice.den
    /\ st.totalItems = 0 => st.avgPrice.num = 0
    /\ st.avgPrice.den > 0

\* C13. A stats request takes the year-month of the clock when it begins;
\* when no create, update or delete of the tenant takes effect between its
\* four aggregates, its Dashboard Stats equal the reference over exactly the
\* tenant's stored Sales (count, sum, sum / count, sum of that month; 0 for
\* an aggregate without rows or with a null), in GET /api/dashboard/stats
\* and in GET /api/dashboard/, which answers the statistics it computed.
StatsMatchReference ==
    [][/\ \A s \in stats' \ stats :
             (s.pc = 2 /\ ~s.dirty) => s.month = strftime_Ym(clock)
       /\ \A s \in stats \ stats' :
             (s.pc = 4 /\ ~s.dirty /\ store' = store) =>
                 LET S == {d \in store : d.userId = s.user}
                 IN  \/ /\ resp'.route = "stats" /\ resp'.status = 200
                        /\ resp'.user = s.user
                        /\ MatchesReference(StatsOf(resp'), S, s.month)
                     \/ \E t \in stats' :
                           /\ t.pc = 5 /\ t.user = s.user /\ resp' = resp
                           /\ MatchesReference(
                                  DashboardStats(t.sum, t.count, t.avg, t.thisMonth),
                                  S, s.month)
       /\ \A s \in stats \ stats' :
             (s.pc = 5 /\ resp'.status = 200) =>
                 StatsOf(resp') = DashboardStats(s.sum, s.count, s.avg, s.thisMonth)]_vars

\* After one create of amount 10 by a tenant, and one by another tenant, an
\* undisturbed stats request that began in April answers total 10, one
\* item, average 10, and 0 for the month (the Sale is of March).
StatsMatchReferenceWitness ==
    /\ resp.route = "stats" /\ resp.status = 200 /\ ~resp.torn
    /\ StatsOf(resp) = [totalSales |-> 10, totalItems |-> 1, thisMonth |-> 0,
                         avgPrice |-> Fraction(10, 1)]
    /\ Cardinality(store) = 2
    /\ Cardinality({d \in store : d.userId = resp.user}) = 1

\* C14. Last writer wins, with no conflict detection: the write step of an
\* update whose Sale is stored answers 200 whatever has been written since
\* the update read, and stores the merge of what it READ with its body; so
\* every field that another writer changed in between, and that the body
\* does not set, is back to the value that was read.
LastWriterWins ==
    [][\A u \in updates \ updates' :
          \A d \in Items(store, u.sid, u.user) :
              /\ resp'.route = "update" /\ resp'.status = 200
              /\ \E e \in Items(store', u.sid, u.user) :
                    /\ resp'.body = <<SaleItem(e)>>
                    /\ \A f \in DOMAIN u.body : e[f] = u.body[f]
                    /\ \A f \in SaleItemFields \ (DOMAIN u.body \cup {"updatedAt"}) :
                          e[f] = u.existing[f]
                    /\ \A f \in resp'.lost \ (DOMAIN u.body \cup {"updatedAt"}) :
                          e[f] # d[f]]_vars

\* Two updates of one Sale have raced: the later writer, which set the
\* product name, read the Sale before the earlier writer stored its amount
\* of 185; it has answered 200, and the stored amount is 10 again.
LostUpdateWitness ==
    /\ resp.route = "update" /\ resp.status = 200
    /\ DOMAIN resp.req = {"productName"}
    /\ "amount" \in resp.lost
    /\ \E d \in store :
          /\ Key(d) = <<resp.user, resp.sid>>
          /\ d.amount = Widget.amount
          /\ d.productName = resp.req.productName
          /\ resp.body = <<SaleItem(d)>>

\* C15. No upsert: an update (with a body that validates) of an id that is
\* not stored for the caller when the update reads or when it writes answers
\* 404 with no Sale, and the step leaves the store as it is, without that id;
\* no update ever adds a key to the store.
UpdateNeverCreates ==
    [][/\ (/\ resp'.route = "update"
           /\ Identified(resp')
           /\ resp'.status # 422
           /\ <<resp'.user, resp'.sid>> \notin Keys(store))
          => /\ resp'.status = 404
             /\ resp'.body = <<>>
             /\ store' = store
             /\ <<resp'.user, resp'.sid>> \notin Keys(store')
       /\ \A u \in updates \ updates' : Keys(store') \subseteq Keys(store)]_vars

\* An update read a Sale, a DELETE of that Sale answered 204, and the
\* update's write has answered 404: the Sale is still gone.
UpdateNeverCreatesWitness ==
    /\ resp.route = "update" /\ resp.status = 404
    /\ resp.lost = SaleItemFields
    /\ <<resp.user, resp.sid>> \in deleted
    /\ <<resp.user, resp.sid>> \notin Keys(store)
    /\ store # {}

\* The routes whose handler calls the store.
StoreRoutes == {"list", "create", "get", "update", "delete",
                "stats", "dashboard", "recent"}

\* C16. No retries, no swallowed store errors: while the store answers its
\* calls with an error other than not-found, the step of a request that
\* calls the store ends that request: its response is 500 with no data (400
\* when create_item reports that the id is taken), the store is as it was,
\* and no request is left to go on or to call the store again.
StoreErrorsSurface ==
    [][(fault # "" /\ fault' = fault) =>
          /\ (resp' # resp /\ resp'.route \in StoreRoutes /\ Identified(resp'))
                => /\ resp'.status =
                          IF /\ resp'.route = "create"
                             /\ fault = "CosmosResourceExistsError"
                          THEN 400 ELSE 500
                   /\ resp'.body = <<>>
          /\ store' = store
          /\ updates' \subseteq updates
          /\ stats' \subseteq stats
          /\ (updates' # updates \/ stats' # stats) => resp' # resp]_vars

\* The store failed a call of an update of a stored Sale: the update has
\* answered 500 and the Sale is stored as it was created.
StoreErrorsSurfaceWitness ==
    /\ fault = "CosmosHttpResponseError"
    /\ resp.route = "update" /\ resp.status = 500
    /\ resp.req = [amount |-> Some(185)]
    /\ \E d \in store : Key(d) = <<resp.user, resp.sid>> /\ SaleItem(d) \in pristine

====
